---- MODULE Spec2Model ----
(***************************************************************************)
(* Solar dashboard (app/main.py, app/utils.py): file locator, ingestion    *)
(* loop, render-cycle guards, filtered view, summary and ranking.          *)
(*                                                                         *)
(* Strings (file names, glob patterns, labels) are sequences of one-       *)
(* character strings, so that globbing, splitting and title-casing are     *)
(* computed.  Table cells are records [k, v, s]: a number, a text or the   *)
(* missing value (NaN).  Statistics are held in hundredths (x100), the     *)
(* precision that .round(2) keeps.                                         *)
(***************************************************************************)
EXTENDS Integers, Sequences, FiniteSets, TLC

VARIABLES
    pc,                 \* position of the script in the render cycle
    data_dir,           \* ./data: [exists, names]
    detected,           \* find_country_files(data_dir): <<[country, path]>>
    mode,               \* the radio's value
    batch,              \* the files the input loop iterates over
    files,              \* files read so far: <<[name, content]>>
    dfs,                \* labelled tables loaded so far
    status_msgs,        \* the status log
    df_all,             \* the unified table
    metrics_available,
    countries,
    controls,           \* [selected_countries, metric_choice, daylight_only, ghi_thr]
    df_view,            \* the filtered view
    summary,            \* the summary table
    rank,               \* the ranking table
    ui,                 \* elements written to the page, in order
    upc,                \* position of the utilities harness
    u_t,                \* utilities harness: input table
    u_arg,              \* utilities harness: arguments of the last call
    u_res               \* utilities harness: results

vars == <<pc, data_dir, detected, mode, batch, files, dfs, status_msgs, df_all,
          metrics_available, countries, controls, df_view, summary, rank, ui,
          upc, u_t, u_arg, u_res>>

mainVars == <<pc, data_dir, detected, mode, batch, files, dfs, status_msgs, df_all,
              metrics_available, countries, controls, df_view, summary, rank, ui>>

utilVars == <<upc, u_t, u_arg, u_res>>

(***************************************************************************)
(* Bounds                                                                  *)
(***************************************************************************)
\* data rows per uploaded file
MaxRows == 2

(***************************************************************************)
(* Strings                                                                 *)
(***************************************************************************)
benin_clean_csv == <<"b","e","n","i","n","_","c","l","e","a","n",".","c","s","v">>
benin_x_csv == <<"b","e","n","i","n","_","x",".","c","s","v">>
benin_csv == <<"b","e","n","i","n",".","c","s","v">>
togo_clean_csv == <<"t","o","g","o","_","c","l","e","a","n",".","c","s","v">>
togo_csv == <<"t","o","g","o",".","c","s","v">>
togo_v2_clean_csv == <<"t","o","g","o","_","v","2","_","c","l","e","a","n",".","c","s","v">>
sierraleone_clean_csv == <<"s","i","e","r","r","a","l","e","o","n","e","_","c","l","e","a","n",".","c","s","v">>
sierra_clean_csv == <<"s","i","e","r","r","a","_","c","l","e","a","n",".","c","s","v">>
sierraleone_csv == <<"s","i","e","r","r","a","l","e","o","n","e",".","c","s","v">>
notes_txt == <<"n","o","t","e","s",".","t","x","t">>
sierra_leone_v2_csv == <<"s","i","e","r","r","a","_","l","e","o","n","e",".","v","2",".","c","s","v">>

Benin == <<"B","e","n","i","n">>
Togo == <<"T","o","g","o">>
SierraLeone == <<"S","i","e","r","r","a"," ","L","e","o","n","e">>

RECURSIVE SeqToSet(_)
SeqToSet(s) == IF s = <<>> THEN {} ELSE {Head(s)} \cup SeqToSet(Tail(s))

(***************************************************************************)
(* File locator (utils.py)                                                 *)
(***************************************************************************)
\* Path.glob(pat) on one name: '*' matches any run of characters, every
\* other pattern character matches itself.
RECURSIVE GlobMatch(_, _)
GlobMatch(pat, name) ==
    IF pat = <<>> THEN name = <<>>
    ELSE IF Head(pat) = "*"
         THEN GlobMatch(Tail(pat), name)
              \/ (name # <<>> /\ GlobMatch(pat, Tail(name)))
         ELSE name # <<>> /\ Head(name) = Head(pat)
              /\ GlobMatch(Tail(pat), Tail(name))

\* list(data_dir.glob(pat)) as a set: the listing order is the file system's
Glob(dir, pat) == {n \in dir.names : GlobMatch(pat, n)}

\* the dict `globs`, in insertion order
globs == <<
    [country |-> Benin, patterns |-> <<
        <<"b","e","n","i","n","*","c","l","e","a","n",".","c","s","v">>,
        <<"b","e","n","i","n","_","*",".","c","s","v">>,
        <<"b","e","n","i","n",".","c","s","v">> >>],
    [country |-> Togo, patterns |-> <<
        <<"t","o","g","o","*","c","l","e","a","n",".","c","s","v">>,
        <<"t","o","g","o","_","*",".","c","s","v">>,
        <<"t","o","g","o",".","c","s","v">> >>],
    [country |-> SierraLeone, patterns |-> <<
        <<"s","i","e","r","r","a","l","e","o","n","e","*","c","l","e","a","n",".","c","s","v">>,
        <<"s","i","e","r","r","a","*","c","l","e","a","n",".","c","s","v">>,
        <<"s","i","e","r","r","a","l","e","o","n","e",".","c","s","v">> >>] >>

\* the inner loop `for pat in patterns`, from pattern i on, with swapped
\* polarity: a pattern with matches is passed over and the last one decides
RECURSIVE FirstFoundLast(_, _, _)
FirstFoundLast(dir, patterns, i) ==
    IF i > Len(patterns) THEN {}
    ELSE IF FirstFoundLast(dir, patterns, i + 1) # {}
         THEN FirstFoundLast(dir, patterns, i + 1)
         ELSE Glob(dir, patterns[i])

\* the inner loop `for pat in patterns`, from pattern i on: the matches of
\* the first pattern that has any (found), {} when no pattern matches
RECURSIVE FirstFound(_, _, _)
FirstFound(dir, patterns, i) ==
    IF i > Len(patterns) THEN {}
    ELSE IF Glob(dir, patterns[i]) # {}
         THEN Glob(dir, patterns[i])
         ELSE FirstFound(dir, patterns, i + 1)

\* the outer loop `for country, patterns in globs.items()`, from entry c on:
\* every mapping the loop can build (found[0] is any of the matches), as the
\* sequence of the dict's items
RECURSIVE MappingsFrom(_, _)
MappingsFrom(dir, c) ==
    IF c > Len(globs) THEN {<<>>}
    ELSE LET found == FirstFound(dir, globs[c].patterns, 1)
             rest  == MappingsFrom(dir, c + 1)
         IN IF found = {} THEN rest
            ELSE {<<[country |-> globs[c].country, path |-> p]>> \o m :
                     p \in found, m \in rest}

find_country_files(dir) ==
    IF ~dir.exists THEN {<<>>} ELSE MappingsFrom(dir, 1)

(***************************************************************************)
(* Cells, tables and CSV contents                                          *)
(***************************************************************************)
Num(n) == [k |-> "num", v |-> n, s |-> <<>>]
Text(str) == [k |-> "str", v |-> 0, s |-> str]
NaN == [k |-> "nan", v |-> 0, s |-> <<>>]

IsNum(cell) == cell.k = "num"

\* what a CSV column of the given name holds in the files considered
CellChoices(col) ==
    CASE col = "GHI" -> {Num(10), Num(21), Text(<<"e","r","r">>)}
      [] col = "DNI" -> {Num(7)}
      [] col = "DHI" -> {Num(3)}
      [] col = "Country" -> {Text(<<"X">>)}
      [] OTHER -> {Text(<<"t">>)}

\* the headers of the files considered: no metric at all and a Country
\* column of its own; metrics without GHI; GHI with another metric
ColumnSets == {{"Timestamp", "Country"}, {"DNI", "DHI"}, {"GHI", "DNI"}}

\* a file that pd.read_csv rejects
Malformed == [ok |-> FALSE, cols |-> {}, rows |-> <<>>]

\* the files pd.read_csv accepts, with at most maxRows data rows
Parseable(maxRows) ==
    UNION {UNION {{[ok |-> TRUE, cols |-> cols, rows |-> rows] :
                      rows \in [1..n -> [cols -> UNION {CellChoices(c) : c \in cols}]]}
                  : n \in 0..maxRows}
           : cols \in ColumnSets}

WellFormed(content) ==
    \A i \in 1..Len(content.rows) :
        \A c \in content.cols : content.rows[i][c] \in CellChoices(c)

UploadContents == {Malformed} \cup {c \in Parseable(MaxRows) : WellFormed(c)}
\* the files on disk considered are header-only or hold a single data row
DiskContents == {Malformed} \cup {c \in UploadContents : Len(c.rows) <= 1}

NoTable == [cols |-> {}, rows |-> <<>>]

\* a labelling that leaves a Country column of the file as it is
LabeledKeepExisting(content, label) ==
    [cols |-> content.cols \cup {"Country"},
     rows |-> [i \in 1..Len(content.rows) |->
                  [c \in content.cols \cup {"Country"} |->
                      IF c \in content.cols THEN content.rows[i][c] ELSE Text(label)]]]

\* df = pd.read_csv(...); df["Country"] = label
Labeled(content, label) ==
    [cols |-> content.cols \cup {"Country"},
     rows |-> [i \in 1..Len(content.rows) |->
                  [c \in content.cols \cup {"Country"} |->
                      IF c = "Country" THEN Text(label) ELSE content.rows[i][c]]]]

\* a table's rows over a wider set of columns, missing where it has none
Reindex(t, cols) ==
    [i \in 1..Len(t.rows) |->
        [c \in cols |-> IF c \in t.cols THEN t.rows[i][c] ELSE NaN]]

RECURSIVE ConcatRows(_, _)
ConcatRows(tables, cols) ==
    IF tables = <<>> THEN <<>>
    ELSE Reindex(Head(tables), cols) \o ConcatRows(Tail(tables), cols)

\* pd.concat(dfs, ignore_index=True)
Concat(tables) ==
    LET cols == UNION {tables[i].cols : i \in 1..Len(tables)}
    IN [cols |-> cols, rows |-> ConcatRows(tables, cols)]

(***************************************************************************)
(* Labels of uploads                                                       *)
(***************************************************************************)
LowerCase == <<"a","b","c","d","e","f","g","h","i","j","k","l","m","n","o","p","q","r","s","t","u","v","w","x","y","z">>
UpperCase == <<"A","B","C","D","E","F","G","H","I","J","K","L","M","N","O","P","Q","R","S","T","U","V","W","X","Y","Z">>

IndexIn(alphabet, ch) ==
    IF \E i \in 1..Len(alphabet) : alphabet[i] = ch
    THEN CHOOSE i \in 1..Len(alphabet) : alphabet[i] = ch
    ELSE 0

IsLetter(ch) == IndexIn(LowerCase, ch) > 0 \/ IndexIn(UpperCase, ch) > 0
ToUpper(ch) == IF IndexIn(LowerCase, ch) > 0 THEN UpperCase[IndexIn(LowerCase, ch)] ELSE ch
ToLower(ch) == IF IndexIn(UpperCase, ch) > 0 THEN LowerCase[IndexIn(UpperCase, ch)] ELSE ch

\* str.split(".")[0]
RECURSIVE BeforeDot(_)
BeforeDot(str) ==
    IF str = <<>> \/ Head(str) = "." THEN <<>>
    ELSE <<Head(str)>> \o BeforeDot(Tail(str))

\* str.replace("_", " ")
ReplaceUnderscore(str) == [i \in 1..Len(str) |-> IF str[i] = "_" THEN " " ELSE str[i]]

\* str.title(): a letter after a non-letter is upper-cased, any other lower-cased
TitleCase(str) ==
    [i \in 1..Len(str) |->
        IF i = 1 \/ ~IsLetter(str[i - 1]) THEN ToUpper(str[i]) ELSE ToLower(str[i])]

\* guess = f.name.split(".")[0].replace("_", " ").title()
Guess(name) == TitleCase(ReplaceUnderscore(BeforeDot(name)))

(***************************************************************************)
(* Numeric coercion and daylight filter (utils.py)                         *)
(***************************************************************************)
Digits == <<"0","1","2","3","4","5","6","7","8","9">>

IsDigits(str) == str # <<>> /\ \A i \in 1..Len(str) : IndexIn(Digits, str[i]) > 0

RECURSIVE DigitsValue(_)
DigitsValue(str) ==
    IF str = <<>> THEN 0
    ELSE 10 * DigitsValue(SubSeq(str, 1, Len(str) - 1)) + (IndexIn(Digits, str[Len(str)]) - 1)

\* a coercion that keeps what it cannot parse and scales what it can
ToNumericScaling(cell) ==
    CASE cell.k = "num" -> Num(10 * cell.v)
      [] cell.k = "str" -> IF IsDigits(cell.s) THEN Num(DigitsValue(cell.s)) ELSE cell
      [] OTHER -> NaN

\* pd.to_numeric(..., errors="coerce") on one cell.  The texts considered are
\* unsigned decimal integers and texts with no digit at all.
ToNumeric(cell) ==
    CASE cell.k = "num" -> cell
      [] cell.k = "str" -> IF IsDigits(cell.s) THEN Num(DigitsValue(cell.s)) ELSE NaN
      [] OTHER -> NaN

coerce_numeric(t, cols) ==
    [cols |-> t.cols,
     rows |-> [i \in 1..Len(t.rows) |->
                  [c \in t.cols |-> IF c \in cols THEN ToNumeric(t.rows[i][c])
                                    ELSE t.rows[i][c]]]]

\* df[ghi_col] > threshold on one cell of a numeric column: NaN compares false
GreaterOrEqual(cell, threshold) == IsNum(cell) /\ cell.v >= threshold
Less(cell, threshold) == IsNum(cell) /\ cell.v < threshold
Greater(cell, threshold) == IsNum(cell) /\ cell.v > threshold

RECURSIVE Keep(_, _, _)
Keep(rows, col, threshold) ==
    IF rows = <<>> THEN <<>>
    ELSE (IF Greater(Head(rows)[col], threshold) THEN <<Head(rows)>> ELSE <<>>)
         \o Keep(Tail(rows), col, threshold)

daylight_filter(t, ghi_col, threshold) ==
    IF ghi_col \notin t.cols THEN t
    ELSE [cols |-> t.cols, rows |-> Keep(t.rows, ghi_col, threshold)]

\* a column daylight_filter can compare with a number: absent, or holding
\* numbers and missing values only (main.py coerces GHI before it filters)
Comparable(t, col) ==
    col \in t.cols => \A i \in 1..Len(t.rows) : t.rows[i][col].k # "str"

(***************************************************************************)
(* Ordering of strings                                                     *)
(***************************************************************************)
Ascii == <<" ", ".", "2">> \o UpperCase \o <<"_">> \o LowerCase

RECURSIVE StrLess(_, _)
StrLess(a, b) ==
    IF b = <<>> THEN FALSE
    ELSE IF a = <<>> THEN TRUE
    ELSE IF Head(a) = Head(b) THEN StrLess(Tail(a), Tail(b))
    ELSE IndexIn(Ascii, Head(a)) < IndexIn(Ascii, Head(b))

\* sorted(S) for a set of strings
SortedStrings(S) ==
    CHOOSE q \in [1..Cardinality(S) -> S] :
        /\ \A i \in 1..Cardinality(S) : \A j \in 1..Cardinality(S) :
               i < j => StrLess(q[i], q[j])

(***************************************************************************)
(* Aggregation (main.py, tabs)                                             *)
(***************************************************************************)
RECURSIVE Sum(_)
Sum(q) == IF q = <<>> THEN 0 ELSE Head(q) + Sum(Tail(q))

Squares(q) == [i \in 1..Len(q) |-> q[i] * q[i]]

\* num/den rounded to the nearest integer, halves to the even one (num >= 0)
RoundDiv(num, den) ==
    LET q == num \div den
        r == num % den
    IN IF 2 * r < den THEN q
       ELSE IF 2 * r > den THEN q + 1
       ELSE IF q % 2 = 0 THEN q ELSE q + 1

\* floor of the square root of n, by bisection on lo*lo <= n < hi*hi
RECURSIVE ISqrtIn(_, _, _)
ISqrtIn(n, lo, hi) ==
    IF hi - lo <= 1 THEN lo
    ELSE LET mid == (lo + hi) \div 2
         IN IF mid * mid <= n THEN ISqrtIn(n, mid, hi) ELSE ISqrtIn(n, lo, mid)

ISqrt(n) == ISqrtIn(n, 0, 46340)

\* the Country values of a table's rows
Groups(t) == {t.rows[i]["Country"].s : i \in 1..Len(t.rows)}

RECURSIVE ValidValues(_, _, _)
ValidValues(rows, country, col) ==
    IF rows = <<>> THEN <<>>
    ELSE (IF Head(rows)["Country"].s = country /\ IsNum(Head(rows)[col])
          THEN <<Head(rows)[col].v>> ELSE <<>>)
         \o ValidValues(Tail(rows), country, col)

\* the k-th smallest of a non-empty sequence of numbers
KthSmallest(q, k) ==
    CHOOSE x \in SeqToSet(q) :
        /\ Cardinality({i \in 1..Len(q) : q[i] < x}) < k
        /\ Cardinality({i \in 1..Len(q) : q[i] <= x}) >= k

\* x100, rounded: NaN for no valid value
Mean100(q) == IF q = <<>> THEN NaN ELSE Num(RoundDiv(100 * Sum(q), Len(q)))

Median100(q) ==
    IF q = <<>> THEN NaN
    ELSE IF Len(q) % 2 = 1 THEN Num(100 * KthSmallest(q, (Len(q) + 1) \div 2))
    ELSE Num(50 * (KthSmallest(q, Len(q) \div 2) + KthSmallest(q, Len(q) \div 2 + 1)))

\* the sample standard deviation (ddof = 1): NaN for fewer than two values
Std100(q) ==
    IF Len(q) < 2 THEN NaN
    ELSE LET n == Len(q)
             d == n * Sum(Squares(q)) - Sum(q) * Sum(q)
         IN Num((ISqrt((40000 * d) \div (n * (n - 1))) + 1) \div 2)

\* the values of column col in the rows of one country that are not missing
GroupValues(t, country, col) == ValidValues(t.rows, country, col)

\* df_view.groupby("Country")[metrics_available].agg(["mean","median","std"]).round(2):
\* one row per Country value of the view, in sorted order
SummaryTable(view, metrics) ==
    LET keys == SortedStrings(Groups(view))
    IN [i \in 1..Len(keys) |->
           [Country |-> keys[i],
            stats |-> [m \in SeqToSet(metrics) |->
                          [mean   |-> Mean100(GroupValues(view, keys[i], m)),
                           median |-> Median100(GroupValues(view, keys[i], m)),
                           std    |-> Std100(GroupValues(view, keys[i], m))]]]]

\* mean(a) >= mean(b), for non-empty a and b
MeanGE(a, b) == Sum(a) * Len(b) >= Sum(b) * Len(a)

\* the orders sort_values may give the countries keyed by q
Orderings(S, InOrder(_, _)) ==
    {q \in [1..Cardinality(S) -> S] :
        /\ \A i \in 1..Cardinality(S) : \A j \in 1..Cardinality(S) :
               i < j => q[i] # q[j] /\ InOrder(q[i], q[j])}

\* the ranking sorted the wrong way round
RankTablesAscending(view) ==
    LET valid == {g \in Groups(view) : GroupValues(view, g, "GHI") # <<>>}
        InOrder(a, b) == MeanGE(GroupValues(view, b, "GHI"), GroupValues(view, a, "GHI"))
    IN {[i \in 1..Cardinality(valid) |->
            [Country |-> q[i], Mean_GHI |-> Mean100(GroupValues(view, q[i], "GHI"))]]
        : q \in Orderings(valid, InOrder)}

\* df_view.groupby("Country")["GHI"].mean().dropna().sort_values(ascending=False).round(2):
\* every table the sort may give (countries of equal mean come in any order)
RankTables(view) ==
    LET valid == {g \in Groups(view) : GroupValues(view, g, "GHI") # <<>>}
        InOrder(a, b) == MeanGE(GroupValues(view, a, "GHI"), GroupValues(view, b, "GHI"))
    IN {[i \in 1..Cardinality(valid) |->
            [Country |-> q[i], Mean_GHI |-> Mean100(GroupValues(view, q[i], "GHI"))]]
        : q \in Orderings(valid, InOrder)}

(***************************************************************************)
(* Inputs of a render cycle                                                *)
(***************************************************************************)
NameUniverse == {benin_clean_csv, benin_x_csv, benin_csv, togo_clean_csv, togo_csv,
                 togo_v2_clean_csv,
                 sierraleone_clean_csv, sierra_clean_csv, sierraleone_csv, notes_txt}

NoDir == [exists |-> FALSE, names |-> {}]

\* every ./data over the names considered
AllDirs == {NoDir} \cup {[exists |-> TRUE, names |-> N] : N \in SUBSET NameUniverse}

\* the ./data directories a render cycle is followed through
MainDirs == {NoDir,
             [exists |-> TRUE, names |-> {notes_txt, benin_clean_csv, benin_csv,
                                          togo_csv, sierra_clean_csv}]}

UploadNames == {togo_csv, sierra_leone_v2_csv}

\* what st.sidebar.file_uploader returns: uploads of distinct names, in any order
UploadBatches ==
    {q \in UNION {[1..n -> UploadNames] : n \in 0..Cardinality(UploadNames)} :
        \A i \in 1..Len(q) : \A j \in 1..Len(q) : i # j => q[i] # q[j]}

\* what the user may type over the guess in a label's text input
OverrideLabels == {Togo}

SliderMin == 5
SliderMax == 150
SliderStep == 5
SliderValues == {v \in SliderMin..SliderMax : (v - SliderMin) % SliderStep = 0}

\* the slider positions considered
ThresholdChoices == {v \in SliderValues : v \in {5, 20}}

Local == "Use local ./data CSVs"
Upload == "Upload CSVs"

NoControls == [selected_countries |-> {}, metric_choice |-> "", daylight_only |-> FALSE,
               ghi_thr |-> 0]
NoRank == [available |-> FALSE, rows |-> <<>>]

(***************************************************************************)
(* The render cycle (main.py)                                              *)
(***************************************************************************)
\* nothing read, computed or drawn yet
MainIdle ==
    /\ detected = <<>>
    /\ mode = ""
    /\ batch = <<>>
    /\ files = <<>>
    /\ dfs = <<>>
    /\ status_msgs = <<>>
    /\ df_all = NoTable
    /\ metrics_available = <<>>
    /\ countries = <<>>
    /\ controls = NoControls
    /\ df_view = NoTable
    /\ summary = <<>>
    /\ rank = NoRank
    /\ ui = <<>>

NoArgs == [cols |-> {}, col |-> "", a |-> 0, b |-> 0]
NoResults == [once |-> NoTable, twice |-> NoTable, low |-> NoTable, high |-> NoTable]

UtilOff ==
    /\ upc = "off"
    /\ u_t = NoTable
    /\ u_arg = NoArgs
    /\ u_res = NoResults

Init ==
    /\ pc = "locate"
    /\ data_dir \in MainDirs
    /\ MainIdle
    /\ UtilOff

\* detected = find_country_files(data_dir)
Locate ==
    /\ pc = "locate"
    /\ detected' \in find_country_files(data_dir)
    /\ ui' = ui \o <<"title", "caption", "sidebar:Data Input">>
    /\ pc' = "radio"
    /\ UNCHANGED <<data_dir, mode, batch, files, dfs, status_msgs, df_all,
                   metrics_available, countries, controls, df_view, summary, rank>>
    /\ UNCHANGED utilVars

\* mode = st.sidebar.radio(...): the default follows `detected`, the user
\* may have picked either source
ChooseMode ==
    /\ pc = "radio"
    /\ \E m \in {Local, Upload} :
          /\ mode' = m
          /\ pc' = IF m = Local THEN "local" ELSE "upload"
    /\ ui' = Append(ui, "sidebar:radio")
    /\ UNCHANGED <<data_dir, detected, batch, files, dfs, status_msgs, df_all,
                   metrics_available, countries, controls, df_view, summary, rank>>
    /\ UNCHANGED utilVars

\* local mode, nothing detected
LocalNone ==
    /\ pc = "local"
    /\ detected = <<>>
    /\ ui' = Append(ui, "sidebar:warning")
    /\ pc' = "status"
    /\ UNCHANGED <<data_dir, detected, mode, batch, files, dfs, status_msgs, df_all,
                   metrics_available, countries, controls, df_view, summary, rank>>
    /\ UNCHANGED utilVars

\* local mode, files detected: the loop over detected.items() starts
LocalStart ==
    /\ pc = "local"
    /\ detected # <<>>
    /\ ui' = Append(ui, "sidebar:success")
    /\ batch' = [i \in 1..Len(detected) |->
                   [name |-> detected[i].path, country |-> detected[i].country]]
    /\ pc' = "loop"
    /\ UNCHANGED <<data_dir, detected, mode, files, dfs, status_msgs, df_all,
                   metrics_available, countries, controls, df_view, summary, rank>>
    /\ UNCHANGED utilVars

\* the try/except of both loops, on a failure that breaks the batch off
LoadedOrReset(tables, content, label) ==
    IF content.ok THEN Append(tables, Labeled(content, label)) ELSE <<>>

\* the try/except of both loops: a file that parses is labelled and
\* appended to dfs, a file that does not leaves dfs as it is
Loaded(tables, content, label) ==
    IF content.ok THEN Append(tables, Labeled(content, label)) ELSE tables

\* the message either branch appends to status_msgs
StatusEntry(content, label, name) ==
    IF content.ok THEN [ok |-> TRUE, label |-> label, name |-> name]
    ELSE [ok |-> FALSE, label |-> <<>>, name |-> name]

\* one iteration of `for country, path in detected.items()`
ReadLocal ==
    /\ pc = "loop"
    /\ mode = Local
    /\ Len(files) < Len(batch)
    /\ \E content \in DiskContents :
          LET item == batch[Len(files) + 1]
          IN /\ files' = Append(files, [name |-> item.name, content |-> content,
                                        label |-> item.country])
             /\ dfs' = Loaded(dfs, content, item.country)
             /\ status_msgs' = Append(status_msgs,
                                      StatusEntry(content, item.country, item.name))
    /\ pc' = IF Len(files) + 1 = Len(batch) THEN "status" ELSE "loop"
    /\ UNCHANGED <<data_dir, detected, mode, batch, df_all, metrics_available,
                   countries, controls, df_view, summary, rank, ui>>
    /\ UNCHANGED utilVars

\* files = st.sidebar.file_uploader(...)
UploadFiles ==
    /\ pc = "upload"
    /\ \E uploaded \in UploadBatches :
          /\ batch' = [i \in 1..Len(uploaded) |-> [name |-> uploaded[i], country |-> <<>>]]
          /\ pc' = IF uploaded = <<>> THEN "status" ELSE "loop"
    /\ ui' = Append(ui, "sidebar:file_uploader")
    /\ UNCHANGED <<data_dir, detected, mode, files, dfs, status_msgs, df_all,
                   metrics_available, countries, controls, df_view, summary, rank>>
    /\ UNCHANGED utilVars

\* one iteration of `for f in files`: the label's text input is drawn, and
\* holds the guess or what the user typed, only once the file has parsed
ReadUpload ==
    /\ pc = "loop"
    /\ mode = Upload
    /\ Len(files) < Len(batch)
    /\ \E content \in UploadContents :
          \E label \in (IF content.ok
                        THEN {Guess(batch[Len(files) + 1].name)} \cup OverrideLabels
                        ELSE {<<>>}) :
             LET item == batch[Len(files) + 1]
             IN /\ files' = Append(files, [name |-> item.name, content |-> content,
                                           label |-> label])
                /\ dfs' = Loaded(dfs, content, label)
                /\ status_msgs' = Append(status_msgs, StatusEntry(content, label, item.name))
                /\ ui' = IF content.ok THEN Append(ui, "sidebar:text_input") ELSE ui
    /\ pc' = IF Len(files) + 1 = Len(batch) THEN "status" ELSE "loop"
    /\ UNCHANGED <<data_dir, detected, mode, batch, df_all, metrics_available,
                   countries, controls, df_view, summary, rank>>
    /\ UNCHANGED utilVars

\* with st.expander("Data load status")
ShowStatus ==
    /\ pc = "status"
    /\ ui' = Append(ui, IF status_msgs # <<>> THEN "status:entries" ELSE "status:info")
    /\ pc' = "guard_data"
    /\ UNCHANGED <<data_dir, detected, mode, batch, files, dfs, status_msgs, df_all,
                   metrics_available, countries, controls, df_view, summary, rank>>
    /\ UNCHANGED utilVars

\* a guard that lets an empty dfs through
NoDataNever(tables) == FALSE

\* if not dfs
NoData(tables) == tables = <<>>

StopNoData ==
    /\ pc = "guard_data"
    /\ NoData(dfs)
    /\ ui' = Append(ui, "warning:no_data")
    /\ pc' = "stopped"
    /\ UNCHANGED <<data_dir, detected, mode, batch, files, dfs, status_msgs, df_all,
                   metrics_available, countries, controls, df_view, summary, rank>>
    /\ UNCHANGED utilVars

\* [c for c in ["GHI", "DNI", "DHI"] if c in df_all.columns]
MetricsOf(t) ==
    LET Present(c) == c \in t.cols
    IN SelectSeq(<<"GHI", "DNI", "DHI">>, Present)

\* df_all = pd.concat(dfs, ignore_index=True); metrics_available = [...]
ConcatAll ==
    /\ pc = "guard_data"
    /\ ~NoData(dfs)
    /\ df_all' = Concat(dfs)
    /\ metrics_available' = MetricsOf(Concat(dfs))
    /\ pc' = "guard_metrics"
    /\ UNCHANGED <<data_dir, detected, mode, batch, files, dfs, status_msgs,
                   countries, controls, df_view, summary, rank, ui>>
    /\ UNCHANGED utilVars

\* if not metrics_available
StopNoMetrics ==
    /\ pc = "guard_metrics"
    /\ metrics_available = <<>>
    /\ ui' = ui \o <<"error:no_metrics", "preview">>
    /\ pc' = "stopped"
    /\ UNCHANGED <<data_dir, detected, mode, batch, files, dfs, status_msgs, df_all,
                   metrics_available, countries, controls, df_view, summary, rank>>
    /\ UNCHANGED utilVars

\* sorted(df_all["Country"].dropna().unique().tolist())
CountriesOf(t) ==
    SortedStrings({t.rows[i]["Country"].s :
                      i \in {j \in 1..Len(t.rows) : t.rows[j]["Country"].k # "nan"}})

ListCountries ==
    /\ pc = "guard_metrics"
    /\ metrics_available # <<>>
    /\ countries' = CountriesOf(df_all)
    /\ pc' = "guard_countries"
    /\ UNCHANGED <<data_dir, detected, mode, batch, files, dfs, status_msgs, df_all,
                   metrics_available, controls, df_view, summary, rank, ui>>
    /\ UNCHANGED utilVars

\* if not countries
StopNoCountries ==
    /\ pc = "guard_countries"
    /\ countries = <<>>
    /\ ui' = ui \o <<"error:no_countries", "preview">>
    /\ pc' = "stopped"
    /\ UNCHANGED <<data_dir, detected, mode, batch, files, dfs, status_msgs, df_all,
                   metrics_available, countries, controls, df_view, summary, rank>>
    /\ UNCHANGED utilVars

\* df_all[df_all["Country"].isin(selected_countries)]
SelectCountries(t, selected) ==
    LET Chosen(r) == r["Country"].k = "str" /\ r["Country"].s \in selected
    IN [cols |-> t.cols, rows |-> SelectSeq(t.rows, Chosen)]

\* a view whose daylight filter reads the first metric there is
FilteredViewFirstMetric(all, metrics, ctl) ==
    LET coerced == coerce_numeric(SelectCountries(all, ctl.selected_countries),
                                  SeqToSet(metrics) \cup {"GHI"})
    IN IF ctl.daylight_only
       THEN daylight_filter(coerced, metrics[1], ctl.ghi_thr)
       ELSE coerced

\* the three statements that build df_view
FilteredView(all, metrics, ctl) ==
    LET coerced == coerce_numeric(SelectCountries(all, ctl.selected_countries),
                                  SeqToSet(metrics) \cup {"GHI"})
    IN IF ctl.daylight_only /\ "GHI" \in coerced.cols
       THEN daylight_filter(coerced, "GHI", ctl.ghi_thr)
       ELSE coerced

\* the four widgets under "Controls", then df_view
Controls ==
    /\ pc = "guard_countries"
    /\ countries # <<>>
    /\ \E sel \in SUBSET SeqToSet(countries) :
       \E mc \in SeqToSet(metrics_available) :
       \E dl \in BOOLEAN :
       \E thr \in ThresholdChoices :
          LET ctl == [selected_countries |-> sel, metric_choice |-> mc,
                      daylight_only |-> dl, ghi_thr |-> thr]
          IN /\ controls' = ctl
             /\ df_view' = FilteredView(df_all, metrics_available, ctl)
    /\ ui' = ui \o <<"sidebar:Controls", "sidebar:multiselect", "sidebar:selectbox",
                     "sidebar:checkbox", "sidebar:slider">>
    /\ pc' = "tab1"
    /\ UNCHANGED <<data_dir, detected, mode, batch, files, dfs, status_msgs, df_all,
                   metrics_available, countries, summary, rank>>
    /\ UNCHANGED utilVars

\* with tab1: the boxplot and the summary table
Tab1 ==
    /\ pc = "tab1"
    /\ summary' = SummaryTable(df_view, metrics_available)
    /\ ui' = ui \o <<"boxplot", "summary_table">>
    /\ pc' = "tab2"
    /\ UNCHANGED <<data_dir, detected, mode, batch, files, dfs, status_msgs, df_all,
                   metrics_available, countries, controls, df_view, rank>>
    /\ UNCHANGED utilVars

\* with tab2, GHI in df_view.columns: the ranking table and its bar chart
Tab2Rank ==
    /\ pc = "tab2"
    /\ "GHI" \in df_view.cols
    /\ \E r \in RankTables(df_view) : rank' = [available |-> TRUE, rows |-> r]
    /\ ui' = ui \o <<"ranking_table", "ranking_chart", "caption">>
    /\ pc' = "done"
    /\ UNCHANGED <<data_dir, detected, mode, batch, files, dfs, status_msgs, df_all,
                   metrics_available, countries, controls, df_view, summary>>
    /\ UNCHANGED utilVars

\* with tab2, no GHI: st.info
Tab2Info ==
    /\ pc = "tab2"
    /\ "GHI" \notin df_view.cols
    /\ rank' = NoRank
    /\ ui' = ui \o <<"ranking_info", "caption">>
    /\ pc' = "done"
    /\ UNCHANGED <<data_dir, detected, mode, batch, files, dfs, status_msgs, df_all,
                   metrics_available, countries, controls, df_view, summary>>
    /\ UNCHANGED utilVars

Next ==
    \/ Locate
    \/ ChooseMode
    \/ LocalNone
    \/ LocalStart
    \/ ReadLocal
    \/ UploadFiles
    \/ ReadUpload
    \/ ShowStatus
    \/ StopNoData
    \/ ConcatAll
    \/ StopNoMetrics
    \/ ListCountries
    \/ StopNoCountries
    \/ Controls
    \/ Tab1
    \/ Tab2Rank
    \/ Tab2Info

Spec == Init /\ [][Next]_vars

(***************************************************************************)
(* The locator over every directory                                        *)
(***************************************************************************)
InitLocate ==
    /\ pc = "locate"
    /\ data_dir \in AllDirs
    /\ MainIdle
    /\ UtilOff

NextLocate == Locate

SpecLocate == InitLocate /\ [][NextLocate]_vars

(***************************************************************************)
(* The utilities on their own: coerce_numeric and daylight_filter          *)
(***************************************************************************)
\* rows of the tables the utilities are applied to
MaxUtilRows == 2

UtilCells(col) ==
    IF col = "GHI"
    THEN {Num(5), Num(20), Num(21), Text(<<"2","1">>), Text(<<"e","r","r">>), NaN}
    ELSE {Num(7), Text(<<"e","r","r">>)}

UtilRows == {r \in [{"GHI", "DNI"} -> UtilCells("GHI") \cup UtilCells("DNI")] :
                r["GHI"] \in UtilCells("GHI") /\ r["DNI"] \in UtilCells("DNI")}

UtilTables ==
    UNION {{[cols |-> {"GHI", "DNI"}, rows |-> rows] : rows \in [1..n -> UtilRows]}
           : n \in 0..MaxUtilRows}

\* column names handed to the utilities: DHI is in no table
UtilColumns == {"GHI", "DNI", "DHI"}

UtilThresholds == {5, 20, 21}

InitUtil ==
    /\ pc = "off"
    /\ data_dir = NoDir
    /\ MainIdle
    /\ upc = "input"
    /\ u_t \in UtilTables
    /\ u_arg = NoArgs
    /\ u_res = NoResults

\* out = coerce_numeric(t, cols)
UCoerce ==
    /\ upc = "input"
    /\ \E cols \in SUBSET UtilColumns :
          /\ u_arg' = [u_arg EXCEPT !.cols = cols]
          /\ u_res' = [u_res EXCEPT !.once = coerce_numeric(u_t, cols)]
    /\ upc' = "coerced"
    /\ UNCHANGED u_t
    /\ UNCHANGED mainVars

\* coerce_numeric(out, cols)
UCoerceAgain ==
    /\ upc = "coerced"
    /\ u_res' = [u_res EXCEPT !.twice = coerce_numeric(u_res.once, u_arg.cols)]
    /\ upc' = "recoerced"
    /\ UNCHANGED <<u_t, u_arg>>
    /\ UNCHANGED mainVars

\* daylight_filter(out, col, a) and daylight_filter(out, col, b) for a < b,
\* on a column that holds no text
UFilter ==
    /\ upc = "coerced"
    /\ \E col \in UtilColumns : \E a \in UtilThresholds : \E b \in UtilThresholds :
          /\ a < b
          /\ Comparable(u_res.once, col)
          /\ u_arg' = [u_arg EXCEPT !.col = col, !.a = a, !.b = b]
          /\ u_res' = [u_res EXCEPT !.low = daylight_filter(u_res.once, col, a),
                                    !.high = daylight_filter(u_res.once, col, b)]
    /\ upc' = "filtered"
    /\ UNCHANGED u_t
    /\ UNCHANGED mainVars

NextUtil ==
    \/ UCoerce
    \/ UCoerceAgain
    \/ UFilter

SpecUtil == InitUtil /\ [][NextUtil]_vars

(***************************************************************************)
(* Properties of the locator                                               *)
(***************************************************************************)
\* the path the mapping holds for a label, <<>> when the label is not in it
PathOf(mapping, label) ==
    IF \E i \in 1..Len(mapping) : mapping[i].country = label
    THEN (mapping[CHOOSE i \in 1..Len(mapping) : mapping[i].country = label]).path
    ELSE <<>>

InMapping(mapping, label) == \E i \in 1..Len(mapping) : mapping[i].country = label

\* the indices of a label's patterns that some name of the directory matches
MatchingPatterns(dir, patterns) ==
    {i \in 1..Len(patterns) : \E n \in dir.names : GlobMatch(patterns[i], n)}

Above(t, col, threshold) ==
    {i \in 1..Len(t.rows) : t.rows[i][col].k = "num" /\ t.rows[i][col].v > threshold}

\* out holds exactly the rows of t with the indices K, in their order
IsSelection(out, t, K) ==
    /\ out.cols = t.cols
    /\ Len(out.rows) = Cardinality(K)
    /\ \A j \in 1..Len(out.rows) :
          \E i \in K : /\ Cardinality({m \in K : m <= i}) = j
                       /\ out.rows[j] = t.rows[i]

CoercionIdempotent ==
    upc = "recoerced" => u_res.twice = u_res.once

\* C9 witness: a table with a number, a numeric text and an unparseable text
\* has been coerced twice over a column it has and a column it has not, and
\* the first coercion changed it
CoercionIdempotentWitness ==
    /\ upc = "recoerced"
    /\ u_arg.cols = {"GHI", "DHI"}
    /\ Len(u_t.rows) = 2
    /\ u_t.rows[1]["GHI"] = Text(<<"2","1">>)
    /\ u_t.rows[2]["GHI"] = Text(<<"e","r","r">>)
    /\ u_t.rows[1]["DNI"] = Text(<<"e","r","r">>)
    /\ u_res.once.rows[1]["GHI"] = Num(21)
    /\ u_res.once.rows[2]["GHI"] = NaN
    /\ u_res.once.rows[1]["DNI"] = Text(<<"e","r","r">>)
    /\ u_res.once # u_t

\* how often a row occurs in a table
Occurrences(t, r) == Cardinality({i \in 1..Len(t.rows) : t.rows[i] = r})

\* C10: for thresholds a < b, every row of daylight_filter(t, c, b) is a row
\* of daylight_filter(t, c, a), as often.
DaylightFilterMonotone ==
    upc = "filtered" =>
        /\ u_arg.a < u_arg.b
        /\ \A j \in 1..Len(u_res.high.rows) :
              Occurrences(u_res.high, u_res.high.rows[j])
                  <= Occurrences(u_res.low, u_res.high.rows[j])

\* C10 witness: the higher threshold kept strictly fewer rows than the lower
\* one, on a column that also holds a missing value
DaylightFilterMonotoneWitness ==
    /\ upc = "filtered"
    /\ u_arg.col = "GHI"
    /\ \E i \in 1..Len(u_res.once.rows) : u_res.once.rows[i]["GHI"] = NaN
    /\ Len(u_res.high.rows) = 0
    /\ Len(u_res.low.rows) = 1

(***************************************************************************)
(* Properties of the render cycle                                          *)
(***************************************************************************)
\* the input loop is over (or there was none to run)
LoopOver == pc \in {"status", "guard_data", "guard_metrics", "guard_countries",
                    "tab1", "tab2", "done", "stopped"}

\* df_all has been built
Unified == pc \in {"guard_metrics", "guard_countries", "tab1", "tab2", "done"}
           \/ (pc = "stopped" /\ ui[Len(ui)] = "preview")

\* the files of the batch that did not parse / that parsed
FailedFiles == {i \in 1..Len(files) : ~files[i].content.ok}
ParsedFiles == {i \in 1..Len(files) : files[i].content.ok}

\* the rows the parsed files hold, in file order: <<[f, r]>> for row r of file f
RECURSIVE RowOrigins(_)
RowOrigins(f) ==
    IF f > Len(files) THEN <<>>
    ELSE (IF files[f].content.ok
          THEN [r \in 1..Len(files[f].content.rows) |-> [f |-> f, r |-> r]]
          ELSE <<>>)
         \o RowOrigins(f + 1)

\* row `row` of a table is row o.r of file o.f under that file's label
IsRowOf(row, o) ==
    /\ row["Country"] = Text(files[o.f].label)
    /\ \A c \in files[o.f].content.cols \ {"Country"} :
          row[c] = files[o.f].content.rows[o.r][c]

UnifiedCountries == {df_all.rows[k]["Country"] : k \in 1..Len(df_all.rows)}

\* C2 as claimed: the Country values of the unified table are exactly the
\* labels of the files that loaded, and no row has a missing Country.
LabelInvariantAsClaimed ==
    Unified =>
        /\ UnifiedCountries = {Text(files[i].label) : i \in ParsedFiles}
        /\ \A k \in 1..Len(df_all.rows) : df_all.rows[k]["Country"].k # "nan"

\* C2 amended: the Country values of the unified table are exactly the labels
\* of the loaded files that have at least one data row, and no row has a
\* missing Country.
LabelInvariant ==
    Unified =>
        /\ UnifiedCountries =
              {Text(files[i].label) : i \in {j \in ParsedFiles : files[j].content.rows # <<>>}}
        /\ \A k \in 1..Len(df_all.rows) : df_all.rows[k]["Country"].k = "str"

\* C2 witness: a unified table built from a header-only file and a file that
\* has a Country column of its own, under different labels: only the second
\* label is in the table, and the file's own Country value is not
LabelInvariantWitness ==
    /\ Unified
    /\ Len(files) = 2
    /\ files[1].content.ok
    /\ files[1].content.rows = <<>>
    /\ files[2].content.ok
    /\ "Country" \in files[2].content.cols
    /\ Len(files[2].content.rows) = 2
    /\ files[1].label # files[2].label
    /\ UnifiedCountries = {Text(files[2].label)}

\* the rows of the view that belong to a country
ViewRowsOf(country) ==
    {k \in 1..Len(df_view.rows) : df_view.rows[k]["Country"] = Text(country)}

\* C4: once the summary is computed, every selected country without a row in
\* the filtered view has a summary row whose mean, median and std are missing.
SummaryKeepsEmptyGroup ==
    pc \in {"tab2", "done"} =>
        \A c \in controls.selected_countries :
            ViewRowsOf(c) = {} =>
                \E i \in 1..Len(summary) :
                    /\ summary[i].Country = c
                    /\ \A m \in DOMAIN summary[i].stats :
                          summary[i].stats[m] = [mean |-> NaN, median |-> NaN, std |-> NaN]

\* the countries of the view with a GHI value that is not missing
Ranked == {c \in Groups(df_view) :
              \E k \in ViewRowsOf(c) : df_view.rows[k]["GHI"].k = "num"}

\* the GHI values of a country's rows in the view, missing ones left out
GhiOf(c) == GroupValues(df_view, c, "GHI")

RankOrder ==
    /\ Len(rank.rows) = Cardinality(Ranked)
    /\ {rank.rows[i].Country : i \in 1..Len(rank.rows)} = Ranked
    /\ \A i \in 1..Len(rank.rows) : \A j \in 1..Len(rank.rows) :
          i < j => /\ rank.rows[i].Mean_GHI.v >= rank.rows[j].Mean_GHI.v
                   /\ MeanGE(GhiOf(rank.rows[i].Country), GhiOf(rank.rows[j].Country))

\* C5 as claimed: the ranking holds exactly the countries with a GHI mean,
\* each with its mean, in non-increasing order of mean.
RankingAsClaimed ==
    (pc = "done" /\ rank.available) =>
        /\ RankOrder
        /\ \A i \in 1..Len(rank.rows) :
              rank.rows[i].Mean_GHI.v * Len(GhiOf(rank.rows[i].Country))
                  = 100 * Sum(GhiOf(rank.rows[i].Country))

\* C5 amended: the ranking holds exactly the countries with a GHI mean, each
\* with its mean rounded to 2 decimal places (within 0.005 of the mean), in
\* non-increasing order of mean.
RankingOrderAndExclusion ==
    (pc = "done" /\ rank.available) =>
        /\ RankOrder
        /\ \A i \in 1..Len(rank.rows) :
              LET q == GhiOf(rank.rows[i].Country)
                  d == rank.rows[i].Mean_GHI.v * Len(q) - 100 * Sum(q)
              IN rank.rows[i].Mean_GHI.k = "num" /\ 2 * d <= Len(q) /\ -2 * d <= Len(q)

\* C5 witness: three countries in the view, one without any valid GHI value
\* and left out, the other two ranked with different means
RankingWitness ==
    /\ pc = "done"
    /\ rank.available
    /\ Cardinality(Groups(df_view)) = 3
    /\ Len(rank.rows) = 2
    /\ rank.rows[1].Mean_GHI = Num(2100)
    /\ rank.rows[2].Mean_GHI = Num(1000)

Charts == {"boxplot", "ranking_chart"}
Tables == {"summary_table", "ranking_table", "preview"}
ControlWidgets == {"sidebar:Controls", "sidebar:multiselect", "sidebar:selectbox",
                   "sidebar:checkbox", "sidebar:slider"}
Dashboard == {"boxplot", "summary_table", "ranking_table", "ranking_chart", "ranking_info"}

Drawn == SeqToSet(ui)

\* C7: the boxplot, the summary table and the ranking section are drawn only
\* if a file loaded, the unified table has one of GHI/DNI/DHI and a row has a
\* Country label; with no file loaded the cycle stops right after the status
\* log and the no-data warning, with no control, chart or table drawn.
TerminalStates ==
    /\ Drawn \cap Dashboard # {} =>
          /\ ParsedFiles # {}
          /\ df_all.cols \cap {"GHI", "DNI", "DHI"} # {}
          /\ \E k \in 1..Len(df_all.rows) : df_all.rows[k]["Country"].k = "str"
    /\ (LoopOver /\ ParsedFiles = {} /\ pc \notin {"status", "guard_data"}) =>
          /\ pc = "stopped"
          /\ Len(ui) >= 2
          /\ ui[Len(ui)] = "warning:no_data"
          /\ ui[Len(ui) - 1] \in {"status:entries", "status:info"}
          /\ Drawn \cap (Charts \cup Tables \cup ControlWidgets) = {}

\* C7 witness: a cycle whose two files both failed has stopped on the warning
TerminalStatesWitness ==
    /\ pc = "stopped"
    /\ Len(files) = 2
    /\ ParsedFiles = {}
    /\ ui[Len(ui)] = "warning:no_data"
    /\ ui[Len(ui) - 1] = "status:entries"

\* the unified table has DNI or DHI and no GHI, and the cycle is at its end
NoGhiAtEnd ==
    /\ Unified
    /\ pc \in {"done", "stopped"}
    /\ "GHI" \notin df_all.cols
    /\ df_all.cols \cap {"DNI", "DHI"} # {}

\* the rest of the dashboard is there, the ranking is replaced by the notice
\* and no row was taken out by the daylight filter
OnlyRankingMissing ==
    /\ pc = "done"
    /\ {"boxplot", "summary_table", "ranking_info"} \subseteq Drawn
    /\ Drawn \cap {"ranking_table", "ranking_chart"} = {}
    /\ ~rank.available
    /\ df_view.cols = df_all.cols
    /\ Len(df_view.rows) =
          Cardinality({k \in 1..Len(df_all.rows) :
                          df_all.rows[k]["Country"].s \in controls.selected_countries})
    /\ \A c \in controls.selected_countries :
          ViewRowsOf(c) # {} => \E i \in 1..Len(summary) : summary[i].Country = c

\* C8 as claimed: whenever the unified table has DNI or DHI and no GHI, the
\* cycle draws the boxplot and the summary, applies no daylight filter and
\* replaces only the ranking by a notice.
LocalizedRankingFailureAsClaimed ==
    NoGhiAtEnd => OnlyRankingMissing

\* C8 amended: the same, provided the unified table has at least one row (and
\* with it a Country label); with none the cycle stops on the no-labels error.
LocalizedRankingFailure ==
    (NoGhiAtEnd /\ df_all.rows # <<>>) => OnlyRankingMissing

\* C8 witness: a view without GHI, built with the daylight toggle on, kept
\* its rows and was drawn with the notice
LocalizedRankingWitness ==
    /\ NoGhiAtEnd
    /\ pc = "done"
    /\ controls.daylight_only
    /\ Len(df_view.rows) = 2
    /\ "ranking_info" \in Drawn

====
